---- MODULE Spec2Model ----
(***************************************************************************)
(* A model of ulp.cpp: the line classifier (processLine and the string,    *)
(* regex and domain helpers it calls) and the producer / worker pool /     *)
(* writer pipeline that main drives over the ordered list of input files.  *)
(*                                                                         *)
(* A std::string is a sequence of one-character strings.  Positions are    *)
(* 1-based; std::string::npos is 0.                                        *)
(***************************************************************************)
EXTENDS Integers, Sequences, FiniteSets, Bags, TLC

\* ------------------------------------------------------------------------
\* Characters
\* ------------------------------------------------------------------------

LowerSeq ==
  <<"a","b","c","d","e","f","g","h","i","j","k","l","m",
    "n","o","p","q","r","s","t","u","v","w","x","y","z">>

UpperSeq ==
  <<"A","B","C","D","E","F","G","H","I","J","K","L","M",
    "N","O","P","Q","R","S","T","U","V","W","X","Y","Z">>

DigitSeq == <<"0","1","2","3","4","5","6","7","8","9">>

Lower == {LowerSeq[i] : i \in 1..26}
Upper == {UpperSeq[i] : i \in 1..26}
Digit == {DigitSeq[i] : i \in 1..10}
Alpha == Lower \cup Upper

\* \w of the regexes
WordCh == Alpha \cup Digit \cup {"_"}

\* [\w\.-] of advancedEmailRegex
EmailCh == WordCh \cup {".", "-"}

\* [\w-] of advancedUrlRegex
HostCh == WordCh \cup {"-"}

\* the characters trim strips
Whitespace == {" ", "\t", "\r", "\n"}

SetMin(S) == CHOOSE x \in S : \A y \in S : x <= y
SetMax(S) == CHOOSE x \in S : \A y \in S : x >= y

\* ------------------------------------------------------------------------
\* String helpers
\* ------------------------------------------------------------------------

\* ::tolower on one character
tolower(c) ==
  IF c \in Upper THEN LowerSeq[CHOOSE i \in 1..26 : UpperSeq[i] = c] ELSE c

toLower(s) == [i \in 1..Len(s) |-> tolower(s[i])]

trim(s) ==
  LET keep == {i \in 1..Len(s) : s[i] \notin Whitespace}
  IN  IF keep = {} THEN <<>> ELSE SubSeq(s, SetMin(keep), SetMax(keep))

\* d occurs in s at position p
occursAt(s, d, p) ==
  /\ p + Len(d) - 1 <= Len(s)
  /\ SubSeq(s, p, p + Len(d) - 1) = d

\* s.find(d, start): the first position >= start where d occurs, 0 (npos) if none
find(s, d, start) ==
  LET hits == {p \in start..(Len(s) - Len(d) + 1) : SubSeq(s, p, p + Len(d) - 1) = d}
  IN  IF hits = {} THEN 0 ELSE SetMin(hits)

RECURSIVE splitFrom(_, _, _)
splitFrom(s, delimiter, start) ==
  LET pos == find(s, delimiter, start)
  IN  IF pos = 0
      THEN <<SubSeq(s, start, Len(s))>>
      ELSE <<SubSeq(s, start, pos - 1)>> \o splitFrom(s, delimiter, pos + Len(delimiter))

\* split(s, delimiter), for a non-empty delimiter
split(s, delimiter) == splitFrom(s, delimiter, 1)

RECURSIVE join(_, _)
join(parts, delimiter) ==
  IF parts = <<>> THEN <<>>
  ELSE IF Len(parts) = 1 THEN parts[1]
  ELSE parts[1] \o delimiter \o join(Tail(parts), delimiter)

\* ------------------------------------------------------------------------
\* Regexes
\* ------------------------------------------------------------------------

AllIn(s, lo, hi, C) == \A i \in lo..hi : s[i] \in C

\* regex_match(s, ([\w\.-]+)@([\w\.-]+\.[a-zA-Z]{2,}))
isValidEmail(s) ==
  \E at \in 2..Len(s) :
    /\ s[at] = "@"
    /\ AllIn(s, 1, at - 1, EmailCh)
    /\ \E dot \in (at + 2)..(Len(s) - 2) :
         /\ s[dot] = "."
         /\ AllIn(s, at + 1, dot - 1, EmailCh)
         /\ AllIn(s, dot + 1, Len(s), Alpha)

\* regex_match(s, ^\+?\d{6,}$)
isPhoneNumber(s) ==
  LET first == IF Len(s) > 0 /\ s[1] = "+" THEN 2 ELSE 1
  IN  /\ Len(s) - first + 1 >= 6
      /\ AllIn(s, first, Len(s), Digit)

\* the length of the longest run of characters of C that starts at position q
RECURSIVE runLen(_, _, _)
runLen(s, q, C) ==
  IF q <= Len(s) /\ s[q] \in C THEN 1 + runLen(s, q + 1, C) ELSE 0

\* [a-zA-Z]{2,} at q, greedy: the position of its last character, 0 if no match
tldEnd(s, q) ==
  LET a == runLen(s, q, Alpha)
  IN  IF a >= 2 THEN q + a - 1 ELSE 0

\* (?:[\w-]+\.)+[a-zA-Z]{2,} from q, after `labels` repetitions of the group:
\* the greedy + first tries one more label, and falls back to the TLD here.
\* The position of the last character of the match, 0 if there is none.
RECURSIVE hostEnd(_, _, _)
hostEnd(s, q, labels) ==
  LET r    == runLen(s, q, HostCh)
      more == IF r >= 1 /\ q + r <= Len(s) /\ s[q + r] = "."
              THEN hostEnd(s, q + r + 1, labels + 1)
              ELSE 0
  IN  IF more # 0 THEN more
      ELSE IF labels >= 1 THEN tldEnd(s, q)
      ELSE 0

\* (https?://)? at p: the length of the scheme matched there, 0 if none
schemeLen(s, p) ==
  IF occursAt(s, <<"h","t","t","p","s",":","/","/">>, p) THEN 8
  ELSE IF occursAt(s, <<"h","t","t","p",":","/","/">>, p) THEN 7
  ELSE 0

\* where capture group 2 starts when advancedUrlRegex matches at p, 0 if it
\* does not match at p: the optional scheme is tried first, then skipped
hostStartAt(s, p) ==
  LET sl == schemeLen(s, p)
  IN  IF sl > 0 /\ hostEnd(s, p + sl, 0) # 0 THEN p + sl
      ELSE IF hostEnd(s, p, 0) # 0 THEN p
      ELSE 0

\* ------------------------------------------------------------------------
\* Domains
\* ------------------------------------------------------------------------

extractEmailDomain(email) ==
  LET pos == find(email, <<"@">>, 1)
  IN  IF pos = 0 THEN <<>> ELSE toLower(SubSeq(email, pos + 1, Len(email)))

\* regex_search takes the leftmost position at which the regex matches
extractUrlDomain(url) ==
  LET starts == {p \in 1..Len(url) : hostStartAt(url, p) # 0}
  IN  IF starts = {} THEN <<>>
      ELSE LET p == SetMin(starts)
               h == hostStartAt(url, p)
           IN  toLower(SubSeq(url, h, hostEnd(url, h, 0)))

\* the label-boundary test left out: any suffix matches
domainMatchesAnySuffix(domain, pattern) ==
  \/ domain = pattern
  \/ /\ Len(domain) > Len(pattern)
     /\ SubSeq(domain, Len(domain) - Len(pattern) + 1, Len(domain)) = pattern

domainMatches(domain, pattern) ==
  \/ domain = pattern
  \/ /\ Len(domain) > Len(pattern)
     /\ SubSeq(domain, Len(domain) - Len(pattern) + 1, Len(domain)) = pattern
     /\ \/ Len(domain) = Len(pattern)
        \/ domain[Len(domain) - Len(pattern)] = "."

\* a non-empty containSet taken for an empty one: no allow-list test
checkDomainNoAllowList(domain, removeSet, containSet) ==
  ~\E r \in removeSet : domainMatches(domain, r)

\* the allow-list tested before the deny-list
checkDomainAllowFirst(domain, removeSet, containSet) ==
  IF containSet # {} /\ \E c \in containSet : domainMatches(domain, c) THEN TRUE
  ELSE IF \E r \in removeSet : domainMatches(domain, r) THEN FALSE
  ELSE containSet = {}

checkDomain(domain, removeSet, containSet) ==
  IF \E r \in removeSet : domainMatches(domain, r) THEN FALSE
  ELSE IF containSet # {} THEN \E c \in containSet : domainMatches(domain, c)
  ELSE TRUE

\* ------------------------------------------------------------------------
\* Config and processLine
\* ------------------------------------------------------------------------

FmtUrlEmailPass == <<"u","r","l",":","e","m","a","i","l",":","p","a","s","s">>
FmtEmailPass    == <<"e","m","a","i","l",":","p","a","s","s">>
CfEmail         == <<"e","m","a","i","l">>
CfPass          == <<"p","a","s","s">>

\* what a worker thread sees when processLine leaves by an exception
\* (std::stoi throws std::out_of_range); no std::string equals it
Thrown == <<"std::out_of_range">>

INT_MAX == 2147483647

digitValue(c) == (CHOOSE i \in 1..10 : DigitSeq[i] = c) - 1

\* std::stoi on a string of decimal digits: its value, or -1 where it throws
\* std::out_of_range (the value does not fit an int)
RECURSIVE stoiFrom(_, _, _)
stoiFrom(str, i, acc) ==
  IF i > Len(str) THEN acc
  ELSE LET d == digitValue(str[i])
       IN  IF acc > (INT_MAX - d) \div 10 THEN -1
           ELSE stoiFrom(str, i + 1, acc * 10 + d)

stoi(str) == stoiFrom(str, 1, 0)

\* lines 317-323: every token of convert_format is a non-empty digit string
isNumericFormat(idxTokens) ==
  /\ idxTokens # <<>>
  /\ \A i \in 1..Len(idxTokens) :
       /\ idxTokens[i] # <<>>
       /\ AllIn(idxTokens[i], 1, Len(idxTokens[i]), Digit)

\* lines 325-331: the trimmed tokens at the in-range indices, in list order
RECURSIVE outParts(_, _, _)
outParts(idxTokens, i, tokens) ==
  IF i > Len(idxTokens) THEN <<>>
  ELSE LET idx == stoi(idxTokens[i]) - 1
       IN  (IF idx >= 0 /\ idx < Len(tokens) THEN <<trim(tokens[idx + 1])>> ELSE <<>>)
           \o outParts(idxTokens, i + 1, tokens)

\* lines 274-291: the login, pass and url fields of a line that has enough tokens
loginField(tokens, format) ==
  IF format = FmtUrlEmailPass THEN trim(tokens[Len(tokens) - 1]) ELSE trim(tokens[1])

passField(tokens, format) ==
  IF format = FmtUrlEmailPass THEN trim(tokens[Len(tokens)]) ELSE trim(tokens[2])

urlField(tokens, format, separator) ==
  IF format = FmtUrlEmailPass
  THEN trim(join(SubSeq(tokens, 1, Len(tokens) - 2), separator))
  ELSE <<>>

\* the email test left out: only phone numbers are turned away
parsedValidNoEmailTest(tokens, format) ==
  /\ \/ format = FmtUrlEmailPass /\ Len(tokens) >= 3
     \/ format = FmtEmailPass /\ Len(tokens) >= 2
  /\ ~isPhoneNumber(loginField(tokens, format))

\* lines 274-292: the format is known, the line has enough tokens and the login
\* is an email and no phone number
parsedValid(tokens, format) ==
  /\ \/ format = FmtUrlEmailPass /\ Len(tokens) >= 3
     \/ format = FmtEmailPass /\ Len(tokens) >= 2
  /\ isValidEmail(loginField(tokens, format))
  /\ ~isPhoneNumber(loginField(tokens, format))

\* lines 294-302
domainFilter(login, url, config) ==
  /\ checkDomain(extractEmailDomain(login), config.email_remove, config.email_contains)
  /\ \/ ~((config.url_remove # {} \/ config.url_contains # {}) /\ url # <<>>)
     \/ checkDomain(extractUrlDomain(url), config.url_remove, config.url_contains)

\* lines 304-309, for a custom_filter of letters and digits only: the regex is
\* then a literal, and regex_search with icase a case-blind substring search
customFilter(line, config) ==
  \/ config.custom_filter = <<>>
  \/ find(toLower(line), toLower(config.custom_filter), 1) # 0

\* the named layout email:pass written pass first
buildOutputPassFirst(line, tokens, login, pass, config) ==
  LET cf        == config.convert_format
      idxTokens == split(cf, config.separator)
  IN  IF isNumericFormat(idxTokens)
      THEN IF \E i \in 1..Len(idxTokens) : stoi(idxTokens[i]) = -1
           THEN Thrown
           ELSE join(outParts(idxTokens, 1, tokens), config.separator)
      ELSE IF cf = FmtEmailPass /\ config.format = FmtUrlEmailPass
      THEN pass \o config.separator \o login
      ELSE IF config.format = FmtEmailPass
      THEN IF cf = CfEmail THEN login
           ELSE IF cf = CfPass THEN pass
           ELSE line
      ELSE line

\* lines 311-352
buildOutput(line, tokens, login, pass, config) ==
  LET cf        == config.convert_format
      idxTokens == split(cf, config.separator)
  IN  IF isNumericFormat(idxTokens)
      THEN IF \E i \in 1..Len(idxTokens) : stoi(idxTokens[i]) = -1
           THEN Thrown
           ELSE join(outParts(idxTokens, 1, tokens), config.separator)
      ELSE IF cf = FmtEmailPass /\ config.format = FmtUrlEmailPass
      THEN login \o config.separator \o pass
      ELSE IF config.format = FmtEmailPass
      THEN IF cf = CfEmail THEN login
           ELSE IF cf = CfPass THEN pass
           ELSE line
      ELSE line

\* processLine(line, config), for a config with a non-empty separator: the
\* output string, <<>> for a rejected line, Thrown where it throws
processLine(line, config) ==
  IF line = <<>> THEN <<>>
  ELSE LET tokens == split(line, config.separator)
       IN  IF ~parsedValid(tokens, config.format) THEN <<>>
           ELSE LET login == loginField(tokens, config.format)
                    pass  == passField(tokens, config.format)
                    url   == urlField(tokens, config.format, config.separator)
                IN  IF ~domainFilter(login, url, config) THEN <<>>
                    ELSE IF ~customFilter(line, config) THEN <<>>
                    ELSE buildOutput(line, tokens, login, pass, config)

\* ------------------------------------------------------------------------
\* Inputs of the pipeline model
\* ------------------------------------------------------------------------

\* hardware_concurrency(), line 474
NumWorkers == 2

BATCH_SIZE == 100

Workers == 1..NumWorkers

NoFilters(format, convert_format) ==
  [separator |-> <<":">>, format |-> format, convert_format |-> convert_format,
   email_remove |-> {}, email_contains |-> {}, url_remove |-> {}, url_contains |-> {},
   custom_filter |-> <<>>]

\* email:pass records written back unchanged
CfgRaw == NoFilters(FmtEmailPass, <<>>)

\* email:pass records reduced to their login: two lines can give one output
CfgLogin == NoFilters(FmtEmailPass, CfEmail)

\* a column index that does not fit an int
CfgHugeIndex == NoFilters(FmtEmailPass, <<"3","0","0","0","0","0","0","0","0","0">>)

PipeConfigs == {CfgRaw, CfgLogin, CfgHugeIndex}

LineA == <<"e","@","d",".","c","o",":","p","w">>
LineB == <<"e","@","d",".","c","o",":","q","q">>
LineP == <<"+","1","2","3","4","5","6",":","p","w">>

\* the content of an input file is its sequence of lines; <<>> is a path that
\* does not exist or a file of size 0
FileSet == {<<>>, <<LineA, LineA>>, <<LineA, LineB>>, <<LineP, LineA>>}

\* the ordered lists of input files main is run on
Runs ==
  {<<f>> : f \in FileSet \ {<<>>}}
  \cup {<<<<LineA, LineB>>, <<LineA, LineB>>>>,
        <<<<LineA, LineA>>, <<LineP, LineA>>>>,
        <<<<>>, <<LineA, LineB>>>>,
        <<<<LineP, LineA>>, <<>>>>}

\* the lines of the input files
PipeLines == UNION {{f[i] : i \in 1..Len(f)} : f \in FileSet}

\* ------------------------------------------------------------------------
\* State
\* ------------------------------------------------------------------------

VARIABLES
  config,             \* main: the Config parseConfig returned
  inputFiles,         \* main: the contents of the input files, in list order
  classified,         \* processLine(l, config) for every line l of the input
                      \* files: config never changes, so what processLine
                      \* returns for a line is fixed when the run starts
  mainPc,             \* main: where it stands
  fileIdx,            \* main: the position of inputFile in inputFiles
  processedCount,
  global_duplicates,
  duplicate_mutex,    \* "free", or held by "main" or by a "worker" (the one
                      \* at "insert")
  doneReading,
  inputQueue,         \* [queue, done] of [line, file, pos]: file and pos say
                      \* which line of which input file it is (history); its
                      \* waiters are the workers at "waiting"
  outputQueue,        \* [queue, done] of [line, file]: file is the input file
                      \* the line was emitted for (history, not program state)
  prodPc,             \* producer thread
  prodPos,            \* producer: the next line getline returns
  wPc,                \* worker threads
  batch,              \* worker: the lines of its batch not yet processed
  localDuplicates,    \* worker
  processed,          \* worker: the string on its way to the output queue
  writerPc,           \* writer thread
  outfile,            \* the lines of filtered_output.txt, in order
  writerDone,
  terminated,         \* the process ended by std::terminate
  pushes,             \* how often outputQueue.push was called in the run
                      \* (history, not program state)
  consumed,           \* the bag of the calls of processLine by the workers:
                      \* [file, pos] is the line and `at` the file main
                      \* was at (history, not program state)
  line,               \* processLine applied on its own: its argument,
  output,             \*   its result,
  applied,            \*   and whether the function applied on its own has run
  again,              \* the program run once more on its own output: the
                      \*   result of processLine on the line it reads back,
  rerun,              \*   and whether that second run has happened
  configFile,         \* parseConfig applied on its own: the lines of the
                      \*   config file, as std::getline returns them
  tsq,                \* a ThreadSafeQueue used on its own: [queue, done]
  nextItem,           \*   the items pushed so far are 1..nextItem
  qPc,                \*   the threads that call popBatch and pop: where they stand,
  qCall,              \*   and the call each is in: [op, max]
  ret,                \*   the last return of popBatch or pop, with the queue
                      \*   as it was when the call took its items (history)
  delivered,          \*   every item handed to a caller, in order (history)
  domain,             \* domainMatches applied on its own: its arguments,
  pattern,
  matched             \*   and its result

pipeVars ==
  <<inputFiles, classified, mainPc, fileIdx, processedCount, global_duplicates,
    duplicate_mutex, doneReading, inputQueue, outputQueue, prodPc, prodPos, wPc,
    batch, localDuplicates, processed, writerPc, outfile, writerDone, terminated,
    pushes, consumed>>

lineVars == <<line, output, applied, again, rerun>>

domainVars == <<domain, pattern, matched>>

parseVars == <<configFile>>

queueVars == <<tsq, nextItem, qPc, qCall, ret, delivered>>

vars == <<config, pipeVars, lineVars, domainVars, parseVars, queueVars>>

EmptyQueue == [queue |-> <<>>, done |-> FALSE]

\* the state main starts the file loop in: the writer thread is running
PipeInit ==
  /\ mainPc = "loop"
  /\ fileIdx = 1
  /\ processedCount = 0
  /\ global_duplicates = {}
  /\ duplicate_mutex = "free"
  /\ doneReading = FALSE
  /\ inputQueue = EmptyQueue
  /\ outputQueue = EmptyQueue
  /\ prodPc = "unstarted"
  /\ prodPos = 1
  /\ wPc = [w \in Workers |-> "unstarted"]
  /\ batch = [w \in Workers |-> <<>>]
  /\ localDuplicates = [w \in Workers |-> {}]
  /\ processed = [w \in Workers |-> <<>>]
  /\ writerPc = "pop"
  /\ outfile = <<>>
  /\ writerDone = FALSE
  /\ terminated = FALSE
  /\ pushes = 0
  /\ consumed = EmptyBag

LineIdle ==
  line = <<>> /\ output = <<>> /\ applied = FALSE /\ again = <<>> /\ rerun = FALSE

DomainIdle == domain = <<>> /\ pattern = <<>> /\ matched = FALSE

ParseIdle == configFile = <<>>

\* the threads that call popBatch and pop on the queue used on its own
NumCallers == 2

Callers == 1..NumCallers

NoCall == [op |-> "none", max |-> 0]

NoReturn ==
  [op |-> "none", max |-> 0, items |-> <<>>, ok |-> FALSE,
   queueBefore |-> <<>>, doneBefore |-> FALSE]

\* lines 225-228: a default-constructed queue that no thread uses yet
QueueIdle ==
  /\ tsq = EmptyQueue
  /\ nextItem = 0
  /\ qPc = [c \in Callers |-> "idle"]
  /\ qCall = [c \in Callers |-> NoCall]
  /\ ret = NoReturn
  /\ delivered = <<>>

Init ==
  /\ config \in PipeConfigs
  /\ inputFiles \in Runs
  /\ classified = [l \in PipeLines |-> processLine(l, config)]
  /\ PipeInit
  /\ QueueIdle
  /\ LineIdle
  /\ DomainIdle
  /\ ParseIdle

\* ------------------------------------------------------------------------
\* ThreadSafeQueue
\* ------------------------------------------------------------------------

\* cond_.notify_one() on the input queue: one of the workers blocked in
\* cond_.wait, if there is any, goes back to test the loop condition
notifyOneWorker(pcs) ==
  IF \E w \in Workers : pcs[w] = "waiting"
  THEN {[pcs EXCEPT ![w] = "pop"] : w \in {v \in Workers : pcs[v] = "waiting"}}
  ELSE {pcs}

\* cond_.notify_all() on the input queue
notifyAllWorkers(pcs) ==
  [w \in Workers |-> IF pcs[w] = "waiting" THEN "pop" ELSE pcs[w]]

\* notify_one() and notify_all() on the output queue: its one waiter is the writer
notifyWriter(pc) == IF pc = "waiting" THEN "pop" ELSE pc

\* the first maxBatchSize items of a queue, and what is left of it
batchOf(queue, maxBatchSize) ==
  SubSeq(queue, 1, IF Len(queue) < maxBatchSize THEN Len(queue) ELSE maxBatchSize)

restOf(queue, maxBatchSize) ==
  SubSeq(queue, (IF Len(queue) < maxBatchSize THEN Len(queue) ELSE maxBatchSize) + 1,
         Len(queue))

\* ------------------------------------------------------------------------
\* main
\* ------------------------------------------------------------------------

\* lines 458-462 and 490: the loop head
MainNextFile ==
  /\ ~terminated
  /\ mainPc = "loop"
  /\ IF fileIdx > Len(inputFiles)
     THEN /\ mainPc' = "setDone"
          /\ UNCHANGED <<fileIdx, processedCount>>
     ELSE IF inputFiles[fileIdx] = <<>>
     THEN /\ fileIdx' = fileIdx + 1
          /\ UNCHANGED <<mainPc, processedCount>>
     ELSE /\ processedCount' = 0
          /\ mainPc' = "lock"
          /\ UNCHANGED fileIdx
  /\ UNCHANGED <<config, inputFiles, classified, global_duplicates, duplicate_mutex, doneReading,
                 inputQueue, outputQueue, prodPc, prodPos, wPc, batch,
                 localDuplicates, processed, writerPc, outfile, writerDone,
                 terminated, lineVars, domainVars, parseVars, queueVars, pushes, consumed>>

\* line 464
MainLock ==
  /\ ~terminated
  /\ mainPc = "lock"
  /\ duplicate_mutex = "free"
  /\ duplicate_mutex' = "main"
  /\ mainPc' = "clear"
  /\ UNCHANGED <<config, inputFiles, classified, fileIdx, processedCount, global_duplicates,
                 doneReading, inputQueue, outputQueue, prodPc, prodPos, wPc, batch,
                 localDuplicates, processed, writerPc, outfile, writerDone,
                 terminated, lineVars, domainVars, parseVars, queueVars, pushes, consumed>>

\* global_duplicates not cleared between files
MainClearKeepsSet ==
  /\ ~terminated
  /\ mainPc = "clear"
  /\ UNCHANGED global_duplicates
  /\ duplicate_mutex' = "free"
  /\ inputQueue' = EmptyQueue
  /\ doneReading' = FALSE
  /\ mainPc' = "spawnProducer"
  /\ UNCHANGED <<config, inputFiles, classified, fileIdx, processedCount, outputQueue, prodPc,
                 prodPos, wPc, batch, localDuplicates, processed, writerPc, outfile,
                 writerDone, terminated, lineVars, domainVars, parseVars, queueVars, pushes, consumed>>

\* lines 465-468: no producer and no worker runs while main is here
MainClear ==
  /\ ~terminated
  /\ mainPc = "clear"
  /\ global_duplicates' = {}
  /\ duplicate_mutex' = "free"
  /\ inputQueue' = EmptyQueue
  /\ doneReading' = FALSE
  /\ mainPc' = "spawnProducer"
  /\ UNCHANGED <<config, inputFiles, classified, fileIdx, processedCount, outputQueue, prodPc,
                 prodPos, wPc, batch, localDuplicates, processed, writerPc, outfile,
                 writerDone, terminated, lineVars, domainVars, parseVars, queueVars, pushes, consumed>>

\* line 472
MainSpawnProducer ==
  /\ ~terminated
  /\ mainPc = "spawnProducer"
  /\ prodPc' = "read"
  /\ prodPos' = 1
  /\ mainPc' = "spawnWorkers"
  /\ UNCHANGED <<config, inputFiles, classified, fileIdx, processedCount, global_duplicates,
                 duplicate_mutex, doneReading, inputQueue, outputQueue, wPc, batch,
                 localDuplicates, processed, writerPc, outfile, writerDone,
                 terminated, lineVars, domainVars, parseVars, queueVars, pushes, consumed>>

\* lines 478-480: one emplace_back; the new thread owns a fresh batch and set
MainSpawnWorker ==
  /\ ~terminated
  /\ mainPc = "spawnWorkers"
  /\ LET w == SetMin({v \in Workers : wPc[v] = "unstarted"})
     IN  /\ wPc' = [wPc EXCEPT ![w] = "pop"]
         /\ batch' = [batch EXCEPT ![w] = <<>>]
         /\ localDuplicates' = [localDuplicates EXCEPT ![w] = {}]
         /\ mainPc' = IF w = NumWorkers THEN "joinProducer" ELSE "spawnWorkers"
  /\ UNCHANGED <<config, inputFiles, classified, fileIdx, processedCount, global_duplicates,
                 duplicate_mutex, doneReading, inputQueue, outputQueue, prodPc,
                 prodPos, processed, writerPc, outfile, writerDone, terminated,
                 lineVars, domainVars, parseVars, queueVars, pushes, consumed>>

\* line 482
MainJoinProducer ==
  /\ ~terminated
  /\ mainPc = "joinProducer"
  /\ prodPc = "done"
  /\ prodPc' = "unstarted"
  /\ mainPc' = "joinWorkers"
  /\ UNCHANGED <<config, inputFiles, classified, fileIdx, processedCount, global_duplicates,
                 duplicate_mutex, doneReading, inputQueue, outputQueue, prodPos, wPc,
                 batch, localDuplicates, processed, writerPc, outfile, writerDone,
                 terminated, lineVars, domainVars, parseVars, queueVars, pushes, consumed>>

\* lines 483-488: the joins return once every worker has returned
MainJoinWorkers ==
  /\ ~terminated
  /\ mainPc = "joinWorkers"
  /\ \A w \in Workers : wPc[w] = "done"
  /\ wPc' = [w \in Workers |-> "unstarted"]
  /\ localDuplicates' = [w \in Workers |-> {}]
  /\ fileIdx' = fileIdx + 1
  /\ mainPc' = "loop"
  /\ UNCHANGED <<config, inputFiles, classified, processedCount, global_duplicates,
                 duplicate_mutex, doneReading, inputQueue, outputQueue, prodPc,
                 prodPos, batch, processed, writerPc, outfile, writerDone,
                 terminated, lineVars, domainVars, parseVars, queueVars, pushes, consumed>>

\* line 490: outputQueue.setDone()
MainSetDone ==
  /\ ~terminated
  /\ mainPc = "setDone"
  /\ outputQueue' = [outputQueue EXCEPT !.done = TRUE]
  /\ writerPc' = notifyWriter(writerPc)
  /\ mainPc' = "waitWriter"
  /\ UNCHANGED <<config, inputFiles, classified, fileIdx, processedCount, global_duplicates,
                 duplicate_mutex, doneReading, inputQueue, prodPc, prodPos, wPc,
                 batch, localDuplicates, processed, outfile, writerDone, terminated,
                 lineVars, domainVars, parseVars, queueVars, pushes, consumed>>

\* lines 491-497
MainWaitWriter ==
  /\ ~terminated
  /\ mainPc = "waitWriter"
  /\ writerDone
  /\ mainPc' = "done"
  /\ UNCHANGED <<config, inputFiles, classified, fileIdx, processedCount, global_duplicates,
                 duplicate_mutex, doneReading, inputQueue, outputQueue, prodPc,
                 prodPos, wPc, batch, localDuplicates, processed, writerPc, outfile,
                 writerDone, terminated, lineVars, domainVars, parseVars, queueVars, pushes, consumed>>

\* ------------------------------------------------------------------------
\* producer
\* ------------------------------------------------------------------------

\* lines 387-389: getline returns a line, inputQueue.push(line)
ProducerPush ==
  /\ ~terminated
  /\ prodPc = "read"
  /\ prodPos <= Len(inputFiles[fileIdx])
  /\ inputQueue' = [inputQueue EXCEPT
                      !.queue = Append(@, [line |-> inputFiles[fileIdx][prodPos],
                                           file |-> fileIdx,
                                           pos  |-> prodPos])]
  /\ wPc' \in notifyOneWorker(wPc)
  /\ prodPos' = prodPos + 1
  /\ UNCHANGED <<config, inputFiles, classified, mainPc, fileIdx, processedCount,
                 global_duplicates, duplicate_mutex, doneReading, outputQueue,
                 prodPc, batch, localDuplicates, processed, writerPc, outfile,
                 writerDone, terminated, lineVars, domainVars, parseVars, queueVars, pushes, consumed>>

\* lines 387 and 390: getline fails at the end of the file, doneReading = true
ProducerDoneReading ==
  /\ ~terminated
  /\ prodPc = "read"
  /\ prodPos > Len(inputFiles[fileIdx])
  /\ doneReading' = TRUE
  /\ prodPc' = "setDone"
  /\ UNCHANGED <<config, inputFiles, classified, mainPc, fileIdx, processedCount,
                 global_duplicates, duplicate_mutex, inputQueue, outputQueue,
                 prodPos, wPc, batch, localDuplicates, processed, writerPc, outfile,
                 writerDone, terminated, lineVars, domainVars, parseVars, queueVars, pushes, consumed>>

\* line 391: inputQueue.setDone()
ProducerSetDone ==
  /\ ~terminated
  /\ prodPc = "setDone"
  /\ inputQueue' = [inputQueue EXCEPT !.done = TRUE]
  /\ wPc' = notifyAllWorkers(wPc)
  /\ prodPc' = "done"
  /\ UNCHANGED <<config, inputFiles, classified, mainPc, fileIdx, processedCount,
                 global_duplicates, duplicate_mutex, doneReading, outputQueue,
                 prodPos, batch, localDuplicates, processed, writerPc, outfile,
                 writerDone, terminated, lineVars, domainVars, parseVars, queueVars, pushes, consumed>>

\* ------------------------------------------------------------------------
\* worker
\* ------------------------------------------------------------------------

\* popBatch copies the lines into the batch and takes only the first of them
\* off the queue
WorkerPopBatchKeepsQueue(w) ==
  /\ ~terminated
  /\ wPc[w] = "pop"
  /\ IF inputQueue.queue = <<>> /\ ~inputQueue.done
     THEN /\ wPc' = [wPc EXCEPT ![w] = "waiting"]
          /\ UNCHANGED <<inputQueue, batch>>
     ELSE /\ batch' = [batch EXCEPT ![w] = batchOf(inputQueue.queue, BATCH_SIZE)]
          /\ inputQueue' = [inputQueue EXCEPT !.queue = Tail(@)]
          /\ wPc' = [wPc EXCEPT ![w] = "check"]
  /\ UNCHANGED <<config, inputFiles, classified, mainPc, fileIdx, processedCount,
                 global_duplicates, duplicate_mutex, doneReading, outputQueue,
                 prodPc, prodPos, localDuplicates, processed, writerPc, outfile,
                 writerDone, terminated, lineVars, domainVars, parseVars, queueVars, pushes, consumed>>

\* lines 361-362 and 206-211: popBatch takes the mutex and tests the loop
\* condition; it waits, or drains up to BATCH_SIZE lines
WorkerPopBatch(w) ==
  /\ ~terminated
  /\ wPc[w] = "pop"
  /\ IF inputQueue.queue = <<>> /\ ~inputQueue.done
     THEN /\ wPc' = [wPc EXCEPT ![w] = "waiting"]
          /\ UNCHANGED <<inputQueue, batch>>
     ELSE /\ batch' = [batch EXCEPT ![w] = batchOf(inputQueue.queue, BATCH_SIZE)]
          /\ inputQueue' = [inputQueue EXCEPT !.queue = restOf(@, BATCH_SIZE)]
          /\ wPc' = [wPc EXCEPT ![w] = "check"]
  /\ UNCHANGED <<config, inputFiles, classified, mainPc, fileIdx, processedCount,
                 global_duplicates, duplicate_mutex, doneReading, outputQueue,
                 prodPc, prodPos, localDuplicates, processed, writerPc, outfile,
                 writerDone, terminated, lineVars, domainVars, parseVars, queueVars, pushes, consumed>>

\* line 207: cond_.wait may return with no notification
WorkerSpuriousWakeup(w) ==
  /\ ~terminated
  /\ wPc[w] = "waiting"
  /\ wPc' = [wPc EXCEPT ![w] = "pop"]
  /\ UNCHANGED <<config, inputFiles, classified, mainPc, fileIdx, processedCount,
                 global_duplicates, duplicate_mutex, doneReading, inputQueue,
                 outputQueue, prodPc, prodPos, batch, localDuplicates, processed,
                 writerPc, outfile, writerDone, terminated, lineVars, domainVars, parseVars, queueVars, pushes, consumed>>

\* the worker leaves as soon as doneReading is set, whatever its batch holds
WorkerCheckDoneOnly(w) ==
  /\ ~terminated
  /\ wPc[w] = "check"
  /\ wPc' = [wPc EXCEPT ![w] = IF doneReading
                                THEN "done" ELSE "process"]
  /\ UNCHANGED <<config, inputFiles, classified, mainPc, fileIdx, processedCount,
                 global_duplicates, duplicate_mutex, doneReading, inputQueue,
                 outputQueue, prodPc, prodPos, batch, localDuplicates, processed,
                 writerPc, outfile, writerDone, terminated, lineVars, domainVars, parseVars, queueVars, pushes, consumed>>

\* line 363
WorkerCheck(w) ==
  /\ ~terminated
  /\ wPc[w] = "check"
  /\ wPc' = [wPc EXCEPT ![w] = IF batch[w] = <<>> /\ doneReading
                                THEN "done" ELSE "process"]
  /\ UNCHANGED <<config, inputFiles, classified, mainPc, fileIdx, processedCount,
                 global_duplicates, duplicate_mutex, doneReading, inputQueue,
                 outputQueue, prodPc, prodPos, batch, localDuplicates, processed,
                 writerPc, outfile, writerDone, terminated, lineVars, domainVars, parseVars, queueVars, pushes, consumed>>

\* the test processed.empty() left out: a rejected line goes on as ""
WorkerProcessNoEmptyTest(w) ==
  /\ ~terminated
  /\ wPc[w] = "process"
  /\ IF batch[w] = <<>>
     THEN /\ wPc' = [wPc EXCEPT ![w] = "pop"]
          /\ UNCHANGED <<batch, localDuplicates, processed, terminated, consumed>>
     ELSE LET p == classified[Head(batch[w]).line]
          IN  /\ batch' = [batch EXCEPT ![w] = Tail(@)]
              /\ consumed' = consumed (+) SetToBag({[file |-> Head(batch[w]).file,
                                                     pos  |-> Head(batch[w]).pos,
                                                     at   |-> fileIdx]})
              /\ IF p = Thrown
                 THEN /\ terminated' = TRUE
                      /\ UNCHANGED <<wPc, localDuplicates, processed>>
                 ELSE IF p \in localDuplicates[w]
                 THEN UNCHANGED <<wPc, localDuplicates, processed, terminated>>
                 ELSE /\ localDuplicates' = [localDuplicates EXCEPT ![w] = @ \cup {p}]
                      /\ processed' = [processed EXCEPT ![w] = p]
                      /\ wPc' = [wPc EXCEPT ![w] = "lock"]
                      /\ UNCHANGED terminated
  /\ UNCHANGED <<config, inputFiles, classified, mainPc, fileIdx, processedCount,
                 global_duplicates, duplicate_mutex, doneReading, inputQueue,
                 outputQueue, prodPc, prodPos, writerPc, outfile, writerDone,
                 lineVars, domainVars, parseVars, queueVars, pushes>>

\* lines 364-367: the next line of the batch, up to the thread-local set; an
\* exception that leaves processLine leaves the thread, and std::terminate
\* ends the process
WorkerProcess(w) ==
  /\ ~terminated
  /\ wPc[w] = "process"
  /\ IF batch[w] = <<>>
     THEN /\ wPc' = [wPc EXCEPT ![w] = "pop"]
          /\ UNCHANGED <<batch, localDuplicates, processed, terminated, consumed>>
     ELSE LET p == classified[Head(batch[w]).line]
          IN  /\ batch' = [batch EXCEPT ![w] = Tail(@)]
              /\ consumed' = consumed (+) SetToBag({[file |-> Head(batch[w]).file,
                                                     pos  |-> Head(batch[w]).pos,
                                                     at   |-> fileIdx]})
              /\ IF p = Thrown
                 THEN /\ terminated' = TRUE
                      /\ UNCHANGED <<wPc, localDuplicates, processed>>
                 ELSE IF p = <<>> \/ p \in localDuplicates[w]
                 THEN UNCHANGED <<wPc, localDuplicates, processed, terminated>>
                 ELSE /\ localDuplicates' = [localDuplicates EXCEPT ![w] = @ \cup {p}]
                      /\ processed' = [processed EXCEPT ![w] = p]
                      /\ wPc' = [wPc EXCEPT ![w] = "lock"]
                      /\ UNCHANGED terminated
  /\ UNCHANGED <<config, inputFiles, classified, mainPc, fileIdx, processedCount,
                 global_duplicates, duplicate_mutex, doneReading, inputQueue,
                 outputQueue, prodPc, prodPos, writerPc, outfile, writerDone,
                 lineVars, domainVars, parseVars, queueVars, pushes>>

\* the insertion entered without waiting for duplicate_mutex
WorkerLockNoWait(w) ==
  /\ ~terminated
  /\ wPc[w] = "lock"
  /\ duplicate_mutex' = "worker"
  /\ wPc' = [wPc EXCEPT ![w] = "insert"]
  /\ UNCHANGED <<config, inputFiles, classified, mainPc, fileIdx, processedCount,
                 global_duplicates, doneReading, inputQueue, outputQueue, prodPc,
                 prodPos, batch, localDuplicates, processed, writerPc, outfile,
                 writerDone, terminated, lineVars, domainVars, parseVars, queueVars, pushes, consumed>>

\* line 369
WorkerLock(w) ==
  /\ ~terminated
  /\ wPc[w] = "lock"
  /\ duplicate_mutex = "free"
  /\ duplicate_mutex' = "worker"
  /\ wPc' = [wPc EXCEPT ![w] = "insert"]
  /\ UNCHANGED <<config, inputFiles, classified, mainPc, fileIdx, processedCount,
                 global_duplicates, doneReading, inputQueue, outputQueue, prodPc,
                 prodPos, batch, localDuplicates, processed, writerPc, outfile,
                 writerDone, terminated, lineVars, domainVars, parseVars, queueVars, pushes, consumed>>

\* the result of the insertion into the global set ignored
WorkerInsertNoTest(w) ==
  /\ ~terminated
  /\ wPc[w] = "insert"
  /\ global_duplicates' = global_duplicates \cup {processed[w]}
  /\ duplicate_mutex' = "free"
  /\ wPc' = [wPc EXCEPT ![w] = "push"]
  /\ UNCHANGED processed
  /\ UNCHANGED <<config, inputFiles, classified, mainPc, fileIdx, processedCount, doneReading,
                 inputQueue, outputQueue, prodPc, prodPos, batch, localDuplicates,
                 writerPc, outfile, writerDone, terminated, lineVars, domainVars, parseVars, queueVars, pushes, consumed>>

\* lines 370-371: the insertion into the global set, and the unlock
WorkerInsert(w) ==
  /\ ~terminated
  /\ wPc[w] = "insert"
  /\ global_duplicates' = global_duplicates \cup {processed[w]}
  /\ duplicate_mutex' = "free"
  /\ IF processed[w] \in global_duplicates
     THEN /\ wPc' = [wPc EXCEPT ![w] = "process"]
          /\ processed' = [processed EXCEPT ![w] = <<>>]
     ELSE /\ wPc' = [wPc EXCEPT ![w] = "push"]
          /\ UNCHANGED processed
  /\ UNCHANGED <<config, inputFiles, classified, mainPc, fileIdx, processedCount, doneReading,
                 inputQueue, outputQueue, prodPc, prodPos, batch, localDuplicates,
                 writerPc, outfile, writerDone, terminated, lineVars, domainVars, parseVars, queueVars, pushes, consumed>>

\* lines 372-373: outputQueue.push(processed); ++processedCount
WorkerPush(w) ==
  /\ ~terminated
  /\ wPc[w] = "push"
  /\ outputQueue' = [outputQueue EXCEPT
                       !.queue = Append(@, [line |-> processed[w], file |-> fileIdx])]
  /\ writerPc' = notifyWriter(writerPc)
  /\ processedCount' = processedCount + 1
  /\ pushes' = pushes + 1
  /\ processed' = [processed EXCEPT ![w] = <<>>]
  /\ wPc' = [wPc EXCEPT ![w] = "process"]
  /\ UNCHANGED <<config, inputFiles, classified, mainPc, fileIdx, global_duplicates,
                 duplicate_mutex, doneReading, inputQueue, prodPc, prodPos, batch,
                 localDuplicates, outfile, writerDone, terminated, lineVars,
                 domainVars, parseVars, queueVars, consumed>>

\* ------------------------------------------------------------------------
\* writer
\* ------------------------------------------------------------------------

\* pop hands over the back item of the queue instead of the front one
WriterPopFromBack ==
  /\ ~terminated
  /\ writerPc = "pop"
  /\ IF outputQueue.queue # <<>>
     THEN /\ outfile' = Append(outfile, outputQueue.queue[Len(outputQueue.queue)])
          /\ outputQueue' = [outputQueue EXCEPT
                               !.queue = SubSeq(@, 1, Len(@) - 1)]
          /\ UNCHANGED <<writerPc, writerDone>>
     ELSE IF outputQueue.done
     THEN /\ writerDone' = TRUE
          /\ writerPc' = "done"
          /\ UNCHANGED <<outfile, outputQueue>>
     ELSE /\ writerPc' = "waiting"
          /\ UNCHANGED <<outfile, outputQueue, writerDone>>
  /\ UNCHANGED <<config, inputFiles, classified, mainPc, fileIdx, processedCount,
                 global_duplicates, duplicate_mutex, doneReading, inputQueue, prodPc,
                 prodPos, wPc, batch, localDuplicates, processed, terminated,
                 lineVars, domainVars, parseVars, queueVars, pushes, consumed>>

\* lines 402-405 and 196-203: pop takes the mutex and tests the loop condition;
\* it waits, or hands over the front item, which the writer appends to the
\* file, or returns false, and the writer sets writerDone
WriterPop ==
  /\ ~terminated
  /\ writerPc = "pop"
  /\ IF outputQueue.queue # <<>>
     THEN /\ outfile' = Append(outfile, Head(outputQueue.queue))
          /\ outputQueue' = [outputQueue EXCEPT !.queue = Tail(@)]
          /\ UNCHANGED <<writerPc, writerDone>>
     ELSE IF outputQueue.done
     THEN /\ writerDone' = TRUE
          /\ writerPc' = "done"
          /\ UNCHANGED <<outfile, outputQueue>>
     ELSE /\ writerPc' = "waiting"
          /\ UNCHANGED <<outfile, outputQueue, writerDone>>
  /\ UNCHANGED <<config, inputFiles, classified, mainPc, fileIdx, processedCount,
                 global_duplicates, duplicate_mutex, doneReading, inputQueue, prodPc,
                 prodPos, wPc, batch, localDuplicates, processed, terminated,
                 lineVars, domainVars, parseVars, queueVars, pushes, consumed>>

\* line 197: cond_.wait may return with no notification
WriterSpuriousWakeup ==
  /\ ~terminated
  /\ writerPc = "waiting"
  /\ writerPc' = "pop"
  /\ UNCHANGED <<config, inputFiles, classified, mainPc, fileIdx, processedCount,
                 global_duplicates, duplicate_mutex, doneReading, inputQueue,
                 outputQueue, prodPc, prodPos, wPc, batch, localDuplicates,
                 processed, outfile, writerDone, terminated, lineVars, domainVars, parseVars, queueVars, pushes, consumed>>

\* ------------------------------------------------------------------------
\* The pipeline
\* ------------------------------------------------------------------------

Main ==
  \/ MainNextFile
  \/ MainLock
  \/ MainClear
  \/ MainSpawnProducer
  \/ MainSpawnWorker
  \/ MainJoinProducer
  \/ MainJoinWorkers
  \/ MainSetDone
  \/ MainWaitWriter

Producer ==
  \/ ProducerPush
  \/ ProducerDoneReading
  \/ ProducerSetDone

Worker(w) ==
  \/ WorkerPopBatch(w)
  \/ WorkerSpuriousWakeup(w)
  \/ WorkerCheck(w)
  \/ WorkerProcess(w)
  \/ WorkerLock(w)
  \/ WorkerInsert(w)
  \/ WorkerPush(w)

Writer ==
  \/ WriterPop
  \/ WriterSpuriousWakeup

\* no thread takes a step once std::terminate has ended the process: every
\* action has ~terminated in its guard
Next ==
  \/ Main
  \/ Producer
  \/ \E w \in Workers : Worker(w)
  \/ Writer

Spec == Init /\ [][Next]_vars

\* ------------------------------------------------------------------------
\* processLine applied on its own
\* ------------------------------------------------------------------------

\* the most separator-separated tokens of a generated line
MaxTokens == 3

Tokens ==
  {<<"e","@","d",".","c","o">>,
   <<"U","@","m",".","D",".","c","o">>,
   <<"p","w">>,
   <<"p","w","\r">>,
   <<"/","/","x",".","c","o","m">>,
   <<"+","1","2","3","4","5","6">>,
   <<>>}

S5Line == <<"h","t","t","p","s",":","/","/","x",".","c","o","m",":","e","@","d",".","c","o",":","p","w">>

\* the input lines of the scenarios S1 to S5
ScenarioLines ==
  {<<"h","t","t","p","s",":","/","/","a",".","c","o","m",":","a","l","i","c","e","@","e","x","a","m","p","l","e",".","c","o","m",":","p","w","1">>,
   <<"h","t","t","p","s",":","/","/","b",".","r","u",":","b","o","b","@","m","a","i","l",".","r","u",":","p","w","2">>,
   <<"h","t","t","p","s",":","/","/","s","i","t","e",".","c","o","m",":","u","@","x",".","i","o",":","s","e","c","r","e","t">>,
   <<"a","@","g","m","a","i","l",".","c","o","m",":","1">>,
   <<"b","@","m","a","i","l",".","g","m","a","i","l",".","c","o","m",":","2">>,
   <<"c","@","y","a","h","o","o",".","c","o","m",":","3">>,
   <<"+","1","5","5","5","1","2","3","4","5","6","7",":","p","w">>,
   <<"u","s","e","r","@","o","k",".","c","o","m",":","p","w">>,
   S5Line}

\* every line of 1..MaxTokens tokens joined by ":", and the scenario lines
Lines ==
  {join(ts, <<":">>) : ts \in UNION {[1..k -> Tokens] : k \in 1..MaxTokens}}
  \cup ScenarioLines

Cf23   == <<"2", ":", "3">>
Cf1    == <<"1">>
Cf090  == <<"0", ":", "9", ":", "2">>
CfHuge == <<"3","0","0","0","0","0","0","0","0","0">>
FmtOther == <<"p","a","s","s">>

DomDCo  == <<"d",".","c","o">>
DomMDCo == <<"m",".","d",".","c","o">>
DomXCom == <<"x",".","c","o","m">>
DomCom  == <<"c","o","m">>

\* configurations that filter: both formats, every combination of the pattern
\* sets below, records written back unchanged
FilterConfigs ==
  {[separator |-> <<":">>, format |-> f, convert_format |-> <<>>,
    email_remove |-> er, email_contains |-> ec, url_remove |-> ur,
    url_contains |-> uc, custom_filter |-> <<>>] :
     f \in {FmtUrlEmailPass, FmtEmailPass},
     er \in {{}, {DomDCo}},
     ec \in {{}, {DomDCo}, {DomMDCo}},
     ur \in {{}, {DomXCom}},
     uc \in {{}, {DomCom}}}

\* configurations that reshape: every format with every convert_format below,
\* with and without a custom_filter
ConvertConfigs ==
  {[separator |-> <<":">>, format |-> f, convert_format |-> cf,
    email_remove |-> {}, email_contains |-> {}, url_remove |-> {},
    url_contains |-> {}, custom_filter |-> cu] :
     f \in {FmtUrlEmailPass, FmtEmailPass, FmtOther},
     cf \in {<<>>, Cf23, Cf1, Cf090, CfHuge, FmtEmailPass, CfEmail, CfPass},
     cu \in {<<>>, <<"P", "W">>}}

\* the configurations of the scenarios S1 and S3 (those of S2, S4 and S5 are
\* among ConvertConfigs)
S1Config ==
  [NoFilters(FmtUrlEmailPass, <<>>) EXCEPT !.email_remove = {<<"r", "u">>}]

S3Config ==
  [NoFilters(FmtEmailPass, <<>>) EXCEPT !.email_contains = {<<"g","m","a","i","l",".","c","o","m">>}]

LineConfigs == FilterConfigs \cup ConvertConfigs \cup {S1Config, S3Config}

\* a separator of more than one character, and tokens that hold a part of it
WideSep == <<":", ":">>

WideTokens ==
  {<<"e","@","d",".","c","o">>,
   <<":">>,
   <<" ", ":">>,
   <<"p","w">>}

\* every line of 1..MaxTokens of these tokens joined by "::"
WideLines ==
  {join(ts, WideSep) : ts \in UNION {[1..k -> WideTokens] : k \in 1..MaxTokens}}

Cf22Wide == <<"2", ":", ":", "2">>
Cf12Wide == <<"1", ":", ":", "2">>
Cf2      == <<"2">>
Cf9      == <<"9">>

\* configurations with the separator "::": both formats, no filter
WideConfigs ==
  {[NoFilters(f, cf) EXCEPT !.separator = WideSep] :
     f \in {FmtUrlEmailPass, FmtEmailPass},
     cf \in {<<>>, Cf22Wide, Cf12Wide, Cf2, Cf9, FmtEmailPass}}

InitLine ==
  /\ \/ config \in LineConfigs /\ line \in Lines
     \/ config \in WideConfigs /\ line \in WideLines
  /\ output = <<>>
  /\ applied = FALSE
  /\ again = <<>>
  /\ rerun = FALSE
  /\ inputFiles = <<>>
  /\ classified = <<>>
  /\ PipeInit
  /\ QueueIdle
  /\ DomainIdle
  /\ ParseIdle

ApplyProcessLine ==
  /\ ~applied
  /\ output' = processLine(line, config)
  /\ applied' = TRUE
  /\ UNCHANGED <<config, line, again, rerun, pipeVars, domainVars, parseVars, queueVars>>

\* writer, line 403: what the writer appends to the output file for a string
writeLine(str) == str \o <<"\n">>

\* producer, line 388: std::getline on what is left of a file: the characters
\* up to the first "\n", or all of them if there is none
getline(content) ==
  LET nl == find(content, <<"\n">>, 1)
  IN  IF nl = 0 THEN content ELSE SubSeq(content, 1, nl - 1)

\* the configuration of the second run: format email:pass, no filter, no
\* custom_filter, no convert_format, the separator of the first run
RerunConfig(first) ==
  [NoFilters(FmtEmailPass, <<>>) EXCEPT !.separator = first.separator]

\* the program run on its own output: the line the writer appended for
\* `output` is read back and classified under RerunConfig
ApplyRerun ==
  /\ applied
  /\ ~rerun
  /\ output # <<>>
  /\ output # Thrown
  /\ again' = processLine(getline(writeLine(output)), RerunConfig(config))
  /\ rerun' = TRUE
  /\ UNCHANGED <<config, line, output, applied, pipeVars, domainVars, parseVars, queueVars>>

NextLine ==
  \/ ApplyProcessLine
  \/ ApplyRerun

SpecLine == InitLine /\ [][NextLine]_vars

\* ------------------------------------------------------------------------
\* domainMatches applied on its own
\* ------------------------------------------------------------------------

\* the longest domain and pattern
MaxDomainLen == 4

DomainChars == {"a", "b", "."}

DomainStrings == UNION {[1..k -> DomainChars] : k \in 0..MaxDomainLen}

InitDomain ==
  /\ domain \in DomainStrings
  /\ pattern \in DomainStrings
  /\ matched = FALSE
  /\ applied = FALSE
  /\ config = CfgRaw
  /\ inputFiles = <<>>
  /\ classified = <<>>
  /\ PipeInit
  /\ QueueIdle
  /\ ParseIdle
  /\ line = <<>>
  /\ output = <<>>
  /\ again = <<>>
  /\ rerun = FALSE

ApplyDomainMatches ==
  /\ ~applied
  /\ matched' = domainMatches(domain, pattern)
  /\ applied' = TRUE
  /\ UNCHANGED <<config, domain, pattern, pipeVars, line, output, again, rerun, parseVars, queueVars>>

NextDomain == ApplyDomainMatches

SpecDomain == InitDomain /\ [][NextDomain]_vars

\* ------------------------------------------------------------------------
\* parseConfig
\* ------------------------------------------------------------------------

\* lines 81-90 and 94: a default-constructed Config
DefaultConfig ==
  [separator |-> <<>>, format |-> <<>>, convert_format |-> <<>>,
   email_remove |-> {}, email_contains |-> {}, url_remove |-> {},
   url_contains |-> {}, custom_filter |-> <<>>]

KeySeparator == <<"s","e","p","a","r","a","t","o","r">>
KeyFormat == <<"f","o","r","m","a","t">>
KeyConvertFormat == <<"c","o","n","v","e","r","t","_","f","o","r","m","a","t">>
KeyCustomFilter == <<"c","u","s","t","o","m","_","f","i","l","t","e","r">>
KeyEmailRemove == <<"e","m","a","i","l","_","r","e","m","o","v","e">>
KeyEmailContains == <<"e","m","a","i","l","_","c","o","n","t","a","i","n","s">>
KeyUrlRemove == <<"u","r","l","_","r","e","m","o","v","e">>
KeyUrlContains == <<"u","r","l","_","c","o","n","t","a","i","n","s">>

\* lines 112-119: the tokens of a list value, trimmed and lowercased, the
\* empty ones too
listTokens(value) ==
  LET tokens == split(value, <<",">>)
  IN  {toLower(trim(tokens[i])) : i \in 1..Len(tokens)}

\* lines 101-120: what one line of the config file does to the Config
parseConfigLine(cfg, raw) ==
  LET l   == trim(raw)
      pos == find(l, <<"=">>, 1)
  IN  IF l = <<>> \/ l[1] = "#" THEN cfg
      ELSE IF pos = 0 THEN cfg
      ELSE LET key   == trim(SubSeq(l, 1, pos - 1))
               value == trim(SubSeq(l, pos + 1, Len(l)))
           IN  IF key = KeySeparator THEN [cfg EXCEPT !.separator = value]
               ELSE IF key = KeyFormat THEN [cfg EXCEPT !.format = value]
               ELSE IF key = KeyConvertFormat THEN [cfg EXCEPT !.convert_format = value]
               ELSE IF key = KeyCustomFilter THEN [cfg EXCEPT !.custom_filter = value]
               ELSE IF key = KeyEmailRemove
               THEN [cfg EXCEPT !.email_remove = @ \cup listTokens(value)]
               ELSE IF key = KeyEmailContains
               THEN [cfg EXCEPT !.email_contains = @ \cup listTokens(value)]
               ELSE IF key = KeyUrlRemove
               THEN [cfg EXCEPT !.url_remove = @ \cup listTokens(value)]
               ELSE IF key = KeyUrlContains
               THEN [cfg EXCEPT !.url_contains = @ \cup listTokens(value)]
               ELSE cfg

RECURSIVE parseConfigFrom(_, _, _)
parseConfigFrom(lines, i, cfg) ==
  IF i > Len(lines) THEN cfg
  ELSE parseConfigFrom(lines, i + 1, parseConfigLine(cfg, lines[i]))

\* parseConfig on a config file that opens, given as its lines
parseConfig(lines) == parseConfigFrom(lines, 1, DefaultConfig)

\* ------------------------------------------------------------------------
\* parseConfig applied on its own
\* ------------------------------------------------------------------------

\* the most lines of a generated config file
MaxConfigLines == 2

ConfigLines ==
  {<<"s","e","p","a","r","a","t","o","r","=",":">>,
   <<"s","e","p","a","r","a","t","o","r","=">>,
   <<" "," ","s","e","p","a","r","a","t","o","r"," ","="," ",":",":","\r">>,
   <<"#"," ","s","e","p","a","r","a","t","o","r","=",":">>,
   <<"f","o","r","m","a","t","=","e","m","a","i","l",":","p","a","s","s">>,
   <<"c","o","n","v","e","r","t","_","f","o","r","m","a","t","=","2",":","3">>,
   <<"e","m","a","i","l","_","c","o","n","t","a","i","n","s","=">>,
   <<"u","r","l","_","r","e","m","o","v","e","=","X",".","c","o","m",","," ",",","d",".","c","o">>,
   <<"=",":">>,
   <<"j","u","n","k">>,
   <<>>}

ConfigFiles == UNION {[1..k -> ConfigLines] : k \in 0..MaxConfigLines}

InitConfig ==
  /\ configFile \in ConfigFiles
  /\ config = DefaultConfig
  /\ applied = FALSE
  /\ inputFiles = <<>>
  /\ classified = <<>>
  /\ PipeInit
  /\ QueueIdle
  /\ DomainIdle
  /\ line = <<>>
  /\ output = <<>>
  /\ again = <<>>
  /\ rerun = FALSE

ApplyParseConfig ==
  /\ ~applied
  /\ config' = parseConfig(configFile)
  /\ applied' = TRUE
  /\ UNCHANGED <<configFile, pipeVars, line, output, again, rerun, domainVars, queueVars>>

NextConfig == ApplyParseConfig

SpecConfig == InitConfig /\ [][NextConfig]_vars

\* ------------------------------------------------------------------------
\* ThreadSafeQueue used on its own
\* ------------------------------------------------------------------------

\* the most items pushed
MaxPushes == 3

\* the largest maxBatchSize a caller passes
MaxBatch == 2

InitQueue ==
  /\ config = CfgRaw
  /\ inputFiles = <<>>
  /\ classified = <<>>
  /\ PipeInit
  /\ QueueIdle
  /\ LineIdle
  /\ DomainIdle
  /\ ParseIdle

\* cond_.notify_one(): one of the callers blocked in cond_.wait, if there is
\* any, goes back to test the loop condition
notifyOne(pcs) ==
  IF \E c \in Callers : pcs[c] = "waiting"
  THEN {[pcs EXCEPT ![c] = "test"] : c \in {d \in Callers : pcs[d] = "waiting"}}
  ELSE {pcs}

\* cond_.notify_all()
notifyAll(pcs) ==
  [c \in Callers |-> IF pcs[c] = "waiting" THEN "test" ELSE pcs[c]]

\* lines 190-194: push(item), by any thread
QPush ==
  /\ nextItem < MaxPushes
  /\ tsq' = [tsq EXCEPT !.queue = Append(@, nextItem + 1)]
  /\ nextItem' = nextItem + 1
  /\ qPc' \in notifyOne(qPc)
  /\ UNCHANGED <<qCall, ret, delivered>>
  /\ UNCHANGED <<config, pipeVars, lineVars, domainVars, parseVars>>

\* lines 213-217: setDone(), by any thread
QSetDone ==
  /\ ~tsq.done
  /\ tsq' = [tsq EXCEPT !.done = TRUE]
  /\ qPc' = notifyAll(qPc)
  /\ UNCHANGED <<nextItem, qCall, ret, delivered>>
  /\ UNCHANGED <<config, pipeVars, lineVars, domainVars, parseVars>>

\* a thread calls popBatch(batch, max) with an empty batch
QCallPopBatch(c) ==
  /\ qPc[c] = "idle"
  /\ \E max \in 1..MaxBatch :
       qCall' = [qCall EXCEPT ![c] = [op |-> "popBatch", max |-> max]]
  /\ qPc' = [qPc EXCEPT ![c] = "test"]
  /\ UNCHANGED <<tsq, nextItem, ret, delivered>>
  /\ UNCHANGED <<config, pipeVars, lineVars, domainVars, parseVars>>

\* a thread calls pop(item)
QCallPop(c) ==
  /\ qPc[c] = "idle"
  /\ qCall' = [qCall EXCEPT ![c] = [op |-> "pop", max |-> 1]]
  /\ qPc' = [qPc EXCEPT ![c] = "test"]
  /\ UNCHANGED <<tsq, nextItem, ret, delivered>>
  /\ UNCHANGED <<config, pipeVars, lineVars, domainVars, parseVars>>

\* popBatch returns at once, whatever the queue holds
QPopBatchNoWait(c) ==
  /\ qPc[c] = "test"
  /\ qCall[c].op = "popBatch"
  /\ ret' = [op |-> "popBatch", max |-> qCall[c].max,
              items |-> batchOf(tsq.queue, qCall[c].max), ok |-> TRUE,
              queueBefore |-> tsq.queue, doneBefore |-> tsq.done]
  /\ delivered' = delivered \o batchOf(tsq.queue, qCall[c].max)
  /\ tsq' = [tsq EXCEPT !.queue = restOf(@, qCall[c].max)]
  /\ qPc' = [qPc EXCEPT ![c] = "idle"]
  /\ qCall' = [qCall EXCEPT ![c] = NoCall]
  /\ UNCHANGED nextItem
  /\ UNCHANGED <<config, pipeVars, lineVars, domainVars, parseVars>>

\* lines 205-212: popBatch holds the mutex and tests the loop condition; it
\* waits, or drains up to max items into the batch and returns
QPopBatch(c) ==
  /\ qPc[c] = "test"
  /\ qCall[c].op = "popBatch"
  /\ IF tsq.queue = <<>> /\ ~tsq.done
     THEN /\ qPc' = [qPc EXCEPT ![c] = "waiting"]
          /\ UNCHANGED <<tsq, qCall, ret, delivered>>
     ELSE /\ ret' = [op |-> "popBatch", max |-> qCall[c].max,
                     items |-> batchOf(tsq.queue, qCall[c].max), ok |-> TRUE,
                     queueBefore |-> tsq.queue, doneBefore |-> tsq.done]
          /\ delivered' = delivered \o batchOf(tsq.queue, qCall[c].max)
          /\ tsq' = [tsq EXCEPT !.queue = restOf(@, qCall[c].max)]
          /\ qPc' = [qPc EXCEPT ![c] = "idle"]
          /\ qCall' = [qCall EXCEPT ![c] = NoCall]
  /\ UNCHANGED nextItem
  /\ UNCHANGED <<config, pipeVars, lineVars, domainVars, parseVars>>

\* lines 195-204: pop holds the mutex and tests the loop condition; it waits,
\* or hands over the front item and returns true, or returns false
QPop(c) ==
  /\ qPc[c] = "test"
  /\ qCall[c].op = "pop"
  /\ IF tsq.queue = <<>> /\ ~tsq.done
     THEN /\ qPc' = [qPc EXCEPT ![c] = "waiting"]
          /\ UNCHANGED <<tsq, qCall, ret, delivered>>
     ELSE /\ ret' = [op |-> "pop", max |-> 1,
                     items |-> IF tsq.queue # <<>> THEN <<Head(tsq.queue)>> ELSE <<>>,
                     ok |-> tsq.queue # <<>>,
                     queueBefore |-> tsq.queue, doneBefore |-> tsq.done]
          /\ delivered' = IF tsq.queue # <<>>
                          THEN Append(delivered, Head(tsq.queue))
                          ELSE delivered
          /\ tsq' = IF tsq.queue # <<>>
                    THEN [tsq EXCEPT !.queue = Tail(@)]
                    ELSE tsq
          /\ qPc' = [qPc EXCEPT ![c] = "idle"]
          /\ qCall' = [qCall EXCEPT ![c] = NoCall]
  /\ UNCHANGED nextItem
  /\ UNCHANGED <<config, pipeVars, lineVars, domainVars, parseVars>>

\* lines 197 and 207: cond_.wait may return with no notification
QSpuriousWakeup(c) ==
  /\ qPc[c] = "waiting"
  /\ qPc' = [qPc EXCEPT ![c] = "test"]
  /\ UNCHANGED <<tsq, nextItem, qCall, ret, delivered>>
  /\ UNCHANGED <<config, pipeVars, lineVars, domainVars, parseVars>>

NextQueue ==
  \/ QPush
  \/ QSetDone
  \/ \E c \in Callers :
       \/ QCallPopBatch(c)
       \/ QCallPop(c)
       \/ QPopBatch(c)
       \/ QPop(c)
       \/ QSpuriousWakeup(c)

SpecQueue == InitQueue /\ [][NextQueue]_vars

\* ------------------------------------------------------------------------
\* Properties of processLine and domainMatches
\* ------------------------------------------------------------------------

EndsWith(s, suffix) ==
  /\ Len(s) >= Len(suffix)
  /\ SubSeq(s, Len(s) - Len(suffix) + 1, Len(s)) = suffix

\* the record of the line processLine was applied to
recTokens == split(line, config.separator)

HasRecord ==
  \/ config.format = FmtUrlEmailPass /\ Len(recTokens) >= 3
  \/ config.format = FmtEmailPass /\ Len(recTokens) >= 2

recLogin == loginField(recTokens, config.format)

recUrl == urlField(recTokens, config.format, config.separator)

recEmailDomain == extractEmailDomain(recLogin)

recUrlDomain == extractUrlDomain(recUrl)

Accepted == applied /\ output # <<>> /\ output # Thrown

\* C6, as stated: an accepted line's email domain matches a pattern of a
\* non-empty email_contains, and, in both formats, its URL domain matches a
\* pattern of a non-empty url_contains.
C6_AllowListsBothFormats ==
  Accepted =>
    /\ config.email_contains # {} =>
         \E c \in config.email_contains : domainMatches(recEmailDomain, c)
    /\ config.url_contains # {} =>
         \E c \in config.url_contains : domainMatches(recUrlDomain, c)

\* C6, amended: an accepted line's email domain matches a pattern of a non-empty
\* email_contains; its URL domain matches a pattern of a non-empty url_contains
\* when the record has a non-empty url field (an email:pass record has none, and
\* is accepted with no URL test); and with both contains-sets empty, no
\* remove-set, no custom_filter and no convert_format, every line with a valid
\* login is accepted as it is, whatever its domains.
C6_AllowLists ==
  /\ Accepted =>
       /\ config.email_contains # {} =>
            \E c \in config.email_contains : domainMatches(recEmailDomain, c)
       /\ config.url_contains # {} /\ recUrl # <<>> =>
            \E c \in config.url_contains : domainMatches(recUrlDomain, c)
  /\ ( /\ applied
       /\ HasRecord
       /\ isValidEmail(recLogin)
       /\ config.email_contains = {} /\ config.url_contains = {}
       /\ config.email_remove = {} /\ config.url_remove = {}
       /\ config.custom_filter = <<>> /\ config.convert_format = <<>> )
     => output = line

\* both allow-lists are set, the record has a URL, and the line is accepted
C6_Witness ==
  /\ Accepted
  /\ config.email_contains # {}
  /\ config.url_contains # {}
  /\ recUrl # <<>>
  /\ recEmailDomain \notin config.email_contains

\* C7: a record whose email domain matches a pattern of email_remove, or whose
\* URL domain (of a non-empty url field) matches a pattern of url_remove, is
\* rejected, whatever the contains-sets hold; so no accepted line's email domain
\* equals a pattern of email_remove or ends with "." and the pattern.
C7_DenyPrecedence ==
  /\ ( /\ applied
       /\ HasRecord
       /\ \/ \E r \in config.email_remove : domainMatches(recEmailDomain, r)
          \/ /\ recUrl # <<>>
             /\ \E r \in config.url_remove : domainMatches(recUrlDomain, r) )
     => output = <<>>
  /\ Accepted =>
       \A r \in config.email_remove :
         /\ recEmailDomain # r
         /\ ~EndsWith(recEmailDomain, <<".">> \o r)

\* a valid record is rejected for a domain that email_remove and email_contains
\* both match
C7_Witness ==
  /\ applied
  /\ HasRecord
  /\ isValidEmail(recLogin)
  /\ \E r \in config.email_remove : domainMatches(recEmailDomain, r)
  /\ \E c \in config.email_contains : domainMatches(recEmailDomain, c)
  /\ output = <<>>

\* C8: a line is accepted only if its format is url:email:pass or email:pass,
\* it has enough tokens, and its trimmed login field is an email and no phone
\* number; every other line is rejected.
C8_ValidLoginOnly ==
  /\ Accepted =>
       /\ HasRecord
       /\ isValidEmail(recLogin)
       /\ ~isPhoneNumber(recLogin)
  /\ applied /\ ~HasRecord => output = <<>>

\* a url:email:pass line whose URL holds the separator is accepted
C8_Witness ==
  /\ Accepted
  /\ config.format = FmtUrlEmailPass
  /\ Len(recTokens) = 4
  /\ output = line

S5Output == <<"e","@","d",".","c","o",":","p","w">>
S5Config == NoFilters(FmtUrlEmailPass, Cf23)

\* C10: scenario S5: with separator ":", format url:email:pass and
\* convert_format 2:3, the line https://x.com:e@d.co:pw is output as e@d.co:pw,
\* its login and pass fields.
C10_ScenarioS5 ==
  applied /\ line = S5Line /\ config = S5Config => output = S5Output

\* the column indices of a numeric convert_format
recIdxTokens == split(config.convert_format, config.separator)

\* the number a string of digits spells; a number above INT_MAX counts as
\* INT_MAX, which is beyond the tokens of any line as well
RECURSIVE decimal(_)
decimal(str) ==
  IF str = <<>> THEN 0
  ELSE LET high == decimal(SubSeq(str, 1, Len(str) - 1))
           low  == digitValue(str[Len(str)])
       IN  IF high > (INT_MAX - low) \div 10 THEN INT_MAX ELSE 10 * high + low

\* the positions in the list of the indices that name a token of the record
recInRange ==
  {i \in 1..Len(recIdxTokens) :
     decimal(recIdxTokens[i]) >= 1 /\ decimal(recIdxTokens[i]) <= Len(recTokens)}

\* C11: with a convert_format that is a list of column indices, an output line
\* split again on the separator has exactly as many fields as the list has
\* in-range indices, with a separator of one character and of several; and a
\* line with no in-range index gives no output line.
C11_FieldCount ==
  applied /\ HasRecord /\ isNumericFormat(recIdxTokens) /\ output # Thrown =>
    IF output = <<>>
    THEN TRUE
    ELSE Len(split(output, config.separator)) = Cardinality(recInRange)

\* C12, as stated: run again on its own output with format email:pass, no
\* filter and no convert_format, the program writes every line it reads,
\* whatever format and convert_format the first run used.
C12_RerunIsNoOp ==
  rerun => again = output

\* the first run wrote email:pass records
WroteEmailPass ==
  \/ config.format = FmtEmailPass /\ config.convert_format = <<>>
  \/ /\ config.format = FmtUrlEmailPass
     /\ config.convert_format = FmtEmailPass
     /\ Len(config.separator) = 1

\* C12, amended: the second run writes every line it reads when the first run
\* wrote email:pass records: format email:pass and no convert_format, or, with
\* a separator of one character, format url:email:pass and convert_format
\* email:pass.
C12_RerunOfEmailPass ==
  rerun /\ WroteEmailPass => again = output

\* a url:email:pass line was reshaped to login and pass by the first run, and
\* the second run wrote it back
C12_Witness ==
  /\ rerun
  /\ config.format = FmtUrlEmailPass
  /\ config.convert_format = FmtEmailPass
  /\ Len(config.separator) = 1
  /\ output # line
  /\ again = output

\* C14: every Config parseConfig returns has a non-empty separator, whatever
\* the config file holds.
C14_SeparatorNonEmpty ==
  applied => config.separator # <<>>

\* the four pattern sets of a Config
PatternSets(cfg) ==
  {cfg.email_remove, cfg.email_contains, cfg.url_remove, cfg.url_contains}

\* C22: none of the pattern sets of a Config parseConfig returns contains the
\* empty string, whatever the config file holds.
C22_NoEmptyPattern ==
  applied => \A patterns \in PatternSets(config) : <<>> \notin patterns

\* C15: a trailing carriage return of an accepted line is stripped: under every
\* convert_format the output does not end in "\r", and the line gives the same
\* output string as the line without its "\r".
C15_CarriageReturnStripped ==
  Accepted /\ EndsWith(line, <<"\r">>) =>
    /\ ~EndsWith(output, <<"\r">>)
    /\ output = processLine(SubSeq(line, 1, Len(line) - 1), config)

\* C17: the queue contract. A popBatch called with an empty batch returns an
\* empty batch only if the queue was done and empty when it looked; otherwise it
\* returns between 1 and max items, the oldest of the queue in FIFO order. pop
\* returns false only if the queue was done and empty. No item is delivered
\* twice and none is dropped: what was delivered, followed by what is queued,
\* is every item pushed, each once, in the order of the pushes.
C17_QueueContract ==
  /\ ret.op = "popBatch" =>
       IF ret.items = <<>>
       THEN ret.doneBefore /\ ret.queueBefore = <<>>
       ELSE /\ Len(ret.items) >= 1
            /\ Len(ret.items) <= ret.max
            /\ Len(ret.items) <= Len(ret.queueBefore)
            /\ ret.items = SubSeq(ret.queueBefore, 1, Len(ret.items))
            /\ Len(ret.items) = ret.max \/ Len(ret.items) = Len(ret.queueBefore)
  /\ ret.op = "pop" =>
       IF ret.ok
       THEN ret.queueBefore # <<>> /\ ret.items = <<Head(ret.queueBefore)>>
       ELSE ret.doneBefore /\ ret.queueBefore = <<>>
  /\ delivered \o tsq.queue = [i \in 1..nextItem |-> i]

\* a popBatch with max 2 has taken the two oldest of three queued items and
\* left the third, while another thread is inside pop
C17_Witness ==
  /\ ret.op = "popBatch"
  /\ ret.max = 2
  /\ Len(ret.queueBefore) = 3
  /\ ret.items = <<1, 2>>
  /\ tsq.queue = <<3>>
  /\ \E c \in Callers : qPc[c] = "test" /\ qCall[c].op = "pop"

\* the trimmed tokens of the record at the in-range indices, in list order,
\* from position i of the list on
RECURSIVE recPicked(_)
recPicked(i) ==
  IF i > Len(recIdxTokens) THEN <<>>
  ELSE (IF i \in recInRange
        THEN <<trim(recTokens[decimal(recIdxTokens[i])])>>
        ELSE <<>>) \o recPicked(i + 1)

\* C19: out-of-range indices of a numeric convert_format are skipped silently:
\* for a line that is accepted with no convert_format, processLine with the
\* list of indices returns the join of the trimmed tokens at the in-range
\* indices, whatever the other indices are (0, beyond the last token, beyond
\* the range of an int), and does not fail.
C19_OutOfRangeSkipped ==
  /\ applied
  /\ isNumericFormat(recIdxTokens)
  /\ processLine(line, [config EXCEPT !.convert_format = <<>>]) # <<>>
  => output = join(recPicked(1), config.separator)

\* C9: domainMatches(domain, pattern) is true iff domain = pattern or domain
\* ends with "." followed by pattern.
C9_DomainMatches ==
  applied =>
    (matched <=> (domain = pattern \/ EndsWith(domain, <<".">> \o pattern)))

\* a non-empty pattern that is a suffix of the domain, but not at a label
\* boundary, does not match
C9_Witness ==
  /\ applied
  /\ ~matched
  /\ pattern # <<>>
  /\ Len(domain) > Len(pattern)
  /\ EndsWith(domain, pattern)

\* ------------------------------------------------------------------------
\* Properties of the pipeline
\* ------------------------------------------------------------------------

\* the non-empty strings processLine returns for the lines of input file k
\* (classified[l] is processLine(l, config) throughout the run)
Results(k) ==
  {classified[inputFiles[k][i]] : i \in 1..Len(inputFiles[k])}
  \ {<<>>, Thrown}

\* everything pushed to the output queue so far, written or not
Emitted == outfile \o outputQueue.queue

Occurrences(items, k, s) ==
  Cardinality({i \in 1..Len(items) : items[i].file = k /\ items[i].line = s})

\* C1: among the lines of one input file that processLine maps to the same
\* non-empty string, at most one is pushed to the output queue; once the workers
\* of the file are joined exactly one has been pushed, and at the end of the run
\* exactly one is written.
C1_OncePerFile ==
  \A k \in 1..Len(inputFiles) :
    \A s \in Results(k) :
      /\ Occurrences(Emitted, k, s) <= 1
      /\ fileIdx > k => Occurrences(Emitted, k, s) = 1
      /\ mainPc = "done" => Occurrences(outfile, k, s) = 1

\* the workers of a file have all returned, every one of them met the same
\* output string, and it was pushed once
C1_Witness ==
  /\ mainPc = "joinWorkers"
  /\ \A w \in Workers : wPc[w] = "done"
  /\ \E s \in Results(fileIdx) :
       /\ \A w \in Workers : s \in localDuplicates[w]
       /\ Occurrences(Emitted, fileIdx, s) = 1

\* C2, as stated: no two lines of the merged output file are byte-equal.
C2_NoEqualLinesInRun ==
  \A i, j \in 1..Len(outfile) :
    i # j => outfile[i].line # outfile[j].line

\* C2, amended: no two lines of the merged output file that were emitted for the
\* same entry of the input file list are byte-equal.
C2_NoEqualLinesPerFile ==
  \A i, j \in 1..Len(outfile) :
    i # j /\ outfile[i].file = outfile[j].file => outfile[i].line # outfile[j].line

\* the run is over; the output holds two lines of one file, and one line twice,
\* once for each of two files
C2_Witness ==
  /\ mainPc = "done"
  /\ \E i, j \in 1..Len(outfile) : i # j /\ outfile[i].file = outfile[j].file
  /\ \E i, j \in 1..Len(outfile) : i # j /\ outfile[i].line = outfile[j].line

\* C3: every string in the output queue or in the output file is non-empty and
\* is processLine of some line of one of the input files.
C3_NoSpontaneousLines ==
  \A i \in 1..Len(Emitted) :
    /\ Emitted[i].line # <<>>
    /\ \E k \in 1..Len(inputFiles) :
         \E j \in 1..Len(inputFiles[k]) :
           Emitted[i].line = classified[inputFiles[k][j]]

\* a file with a rejected line has been processed, a line is written and
\* another is in the output queue
C3_Witness ==
  /\ \E k \in 1..Len(inputFiles) :
       /\ fileIdx > k
       /\ \E j \in 1..Len(inputFiles[k]) : classified[inputFiles[k][j]] = <<>>
  /\ outfile # <<>>
  /\ outputQueue.queue # <<>>

\* how often the string s is a line of the output file
Written(s) == Cardinality({i \in 1..Len(outfile) : outfile[i].line = s})

\* C4: at the end of the run the multiset of lines of the output file is a
\* function of the input files and the configuration alone: a string is written
\* once for every input file that has a line processLine maps to it, in every
\* interleaving and with every number of workers.
C4_SameOutputEveryRun ==
  mainPc = "done" =>
    \A s \in UNION {Results(k) : k \in 1..Len(inputFiles)}
             \cup {outfile[i].line : i \in 1..Len(outfile)} :
      Written(s) = Cardinality({k \in 1..Len(inputFiles) : s \in Results(k)})

\* the run is over and the lines of the one input file are written in the
\* opposite order
C4_Witness ==
  /\ mainPc = "done"
  /\ inputFiles = <<<<LineA, LineB>>>>
  /\ config = CfgRaw
  /\ Len(outfile) = 2
  /\ outfile[1].line = LineB
  /\ outfile[2].line = LineA

\* the threads inside a critical section of duplicate_mutex
InCriticalSection ==
  {w \in Workers : wPc[w] = "insert"} \cup (IF mainPc = "clear" THEN {0} ELSE {})

\* C18: global_duplicates is mutated only while duplicate_mutex is held: at most
\* one thread, main or a worker, is inside a critical section, and the mutex is
\* held exactly then; the set changes only in a step of the thread that holds
\* the mutex; main clears it only when no worker is running; and a worker
\* inserts a string only after its thread-local set accepted it.
C18_SetUnderMutex ==
  /\ [](/\ Cardinality(InCriticalSection) <= 1
        /\ duplicate_mutex # "free" <=> InCriticalSection # {}
        /\ mainPc \in {"lock", "clear"} => \A w \in Workers : wPc[w] = "unstarted"
        /\ \A w \in Workers :
             wPc[w] = "insert" =>
               processed[w] # <<>> /\ processed[w] \in localDuplicates[w])
  /\ [][global_duplicates' # global_duplicates =>
          /\ duplicate_mutex # "free"
          /\ duplicate_mutex' = "free"
          /\ InCriticalSection' = {}]_vars

\* in the second file, after main has cleared the set, one worker is inside
\* the insertion and the other waits for the mutex
C18_Witness ==
  /\ fileIdx = 2
  /\ duplicate_mutex = "worker"
  /\ \E w, v \in Workers :
       /\ wPc[w] = "insert"
       /\ wPc[v] = "lock"
       /\ processed[v] \notin global_duplicates

\* how often a worker has called processLine on line pos of input file k
TimesConsumed(k, pos) ==
  LET calls == {r \in BagToSet(consumed) : r.file = k /\ r.pos = pos}
  IN  IF calls = {} THEN 0
      ELSE IF Cardinality(calls) > 1 THEN 2
      ELSE CopiesIn(CHOOSE r \in calls : TRUE, consumed)

\* the workers of the file main is at have all returned
WorkersExited ==
  mainPc = "joinWorkers" /\ \A w \in Workers : wPc[w] = "done"

\* C20: every line the producer pushes is classified by exactly one worker of
\* the same file: no line is classified twice or by a worker of another file;
\* when the workers of a file have all returned the input queue and their
\* batches are empty and every line of the file has been classified once; so
\* the queue is empty when main clears it for the next file.
C20_ConsumedOncePerFile ==
  /\ \A r \in BagToSet(consumed) :
       /\ r.at = r.file
       /\ TimesConsumed(r.file, r.pos) = 1
  /\ \A i \in 1..Len(inputQueue.queue) : inputQueue.queue[i].file = fileIdx
  /\ WorkersExited =>
       /\ inputQueue.queue = <<>>
       /\ \A w \in Workers : batch[w] = <<>>
  /\ \A k \in 1..Len(inputFiles) :
       k < fileIdx \/ (k = fileIdx /\ WorkersExited) =>
         \A pos \in 1..Len(inputFiles[k]) : TimesConsumed(k, pos) = 1
  /\ mainPc = "clear" => inputQueue.queue = <<>>

\* main is about to clear the input queue for the second file; the two lines
\* of the first file were each classified once, and the queue still has done_
\* set from the first file
C20_Witness ==
  /\ mainPc = "clear"
  /\ fileIdx = 2
  /\ inputQueue.done
  /\ Len(inputFiles[1]) = 2
  /\ \A pos \in 1..2 : TimesConsumed(1, pos) = 1

\* the entries of the input file list that main skips: the path does not
\* exist, or the file is empty
Skipped == {k \in 1..Len(inputFiles) : inputFiles[k] = <<>>}

\* main's step from a skipped file: no thread is started, nothing is pushed or
\* written, processedCount, global_duplicates and the input queue stay as they
\* are, and main is at the head of the loop with the next file
SkipLeavesState ==
  [][/\ mainPc = "loop"
     /\ fileIdx \in Skipped
     /\ <<mainPc, fileIdx>>' # <<mainPc, fileIdx>>
     =>
       /\ fileIdx' = fileIdx + 1
       /\ mainPc' = "loop"
       /\ UNCHANGED <<processedCount, global_duplicates, inputQueue, outputQueue,
                      outfile, prodPc, wPc, doneReading>>]_vars

\* C13: a missing or empty input file is skipped without error: nothing is
\* pushed or written for it, every later file is still processed, and the run
\* does not end other than with exit code 0.
C13_SkippedWithoutError ==
  Skipped # {} =>
    /\ \A i \in 1..Len(Emitted) : Emitted[i].file \notin Skipped
    /\ mainPc = "done" =>
         \A k \in 1..Len(inputFiles) : \A s \in Results(k) :
           Occurrences(outfile, k, s) = 1
    /\ ~terminated

\* C21: the lines emitted for input file k are written before any line emitted
\* for a later file: in the output file followed by the output queue the file
\* an item was emitted for never decreases, every item is the result of a line
\* of that file, no item belongs to a file main has not reached, and once main
\* is past a file every output string of that file has been emitted.
C21_FilesWrittenInOrder ==
  /\ \A i, j \in 1..Len(Emitted) : i < j => Emitted[i].file <= Emitted[j].file
  /\ \A i \in 1..Len(Emitted) :
       /\ Emitted[i].file \in 1..Len(inputFiles)
       /\ Emitted[i].file <= fileIdx
       /\ Emitted[i].line \in Results(Emitted[i].file)
  /\ \A k \in 1..Len(inputFiles) :
       k < fileIdx => \A s \in Results(k) : Occurrences(Emitted, k, s) = 1

\* the writer lags behind: a line of the first file is written, and the output
\* queue holds a line of the first file in front of a line of the second
C21_Witness ==
  /\ outfile # <<>>
  /\ \E i, j \in 1..Len(outputQueue.queue) :
       /\ i < j
       /\ outputQueue.queue[i].file = 1
       /\ outputQueue.queue[j].file = 2

\* ------------------------------------------------------------------------
\* The pipeline under fair scheduling
\* ------------------------------------------------------------------------

\* what a worker does when it is scheduled; a wait that returns with no
\* notification is nothing the scheduler owes it
WorkerRuns(w) ==
  \/ WorkerPopBatch(w)
  \/ WorkerCheck(w)
  \/ WorkerProcess(w)
  \/ WorkerLock(w)
  \/ WorkerInsert(w)
  \/ WorkerPush(w)

\* every thread that can take a step is scheduled in the end
FairSpec ==
  /\ Init
  /\ [][Next]_vars
  /\ WF_vars(Main)
  /\ WF_vars(Producer)
  /\ \A w \in Workers : WF_vars(WorkerRuns(w))
  /\ WF_vars(WriterPop)

\* what C16 says of every state and step: outputQueue.setDone() comes after the
\* workers of every file are joined, no push follows it, and when the writer
\* has set writerDone the output queue is empty and the file holds as many
\* lines as were pushed
ShutdownOrder ==
  /\ [](outputQueue.done =>
          /\ fileIdx > Len(inputFiles)
          /\ \A w \in Workers : wPc[w] = "unstarted")
  /\ [][outputQueue.done => pushes' = pushes]_vars
  /\ [](writerDone => outputQueue.queue = <<>> /\ Len(outfile) = pushes)

\* C16: shutdown loses nothing: the order above, and under fair scheduling the
\* writer sets writerDone in the end.
C16_ShutdownLosesNothing ==
  /\ ShutdownOrder
  /\ <>writerDone

\* the writer sets writerDone in the end when every column index of
\* convert_format is in the range of an int
WriterDoneWithoutHugeIndex ==
  config # CfgHugeIndex => <>writerDone

\* C5: the pipeline runs to completion on every input file: the producer and
\* every worker of every file return and main joins them all.
C5_RunsToCompletion == <>(fileIdx > Len(inputFiles))

\* the same with every column index of convert_format in the range of an int
CompletionWithoutHugeIndex ==
  config # CfgHugeIndex => <>(mainPc = "done")

====
